---- MODULE Spec2Model ----
(***************************************************************************)
(* A model of app/server.go: the RESP frame decoder (parse), the TTL-aware *)
(* key-value store (Store.Set, Store.Get), the per-connection command      *)
(* dispatcher (handleConnection) and the replica's receive loop            *)
(* (replicateMaster).                                                      *)
(*                                                                         *)
(* A byte string is a sequence of one-character strings, so that splitting *)
(* on CRLF, prefix tests, decimal conversion and case folding are computed *)
(* byte by byte as the Go code computes them.  Time is an integer number   *)
(* of milliseconds.                                                        *)
(***************************************************************************)
EXTENDS Integers, Sequences, FiniteSets, TLC

VARIABLES
    Data,       \* Store.Data: key -> value (a function on the keys present)
    Expiries,   \* Store.Expiries: key -> absolute expiry instant
    now,        \* the clock read by time.Now()
    slaves,     \* the package-level slice of replica connections
    open,       \* connections whose handler loop is still running
    crashed,    \* TRUE once a goroutine has panicked (the process is gone)
    replicaOf,  \* the -replicaof flag: "" in a master
    rpc,        \* where replicateMaster is: dial, ping, port, capa, psync, loop, done
    sent,       \* history: the handshake frames replicateMaster has written
    served,     \* how many of them the master has read and answered
    written,    \* how many writes the master has made to the link since then
    link,       \* the master's writes not yet read by the replica, oldest first
    offset,     \* replica.offset
    consumed,   \* history: sum of the byte counts of the receive loop's reads
    lastSet,    \* history: per key, the most recent Store.Set [value, ttl, at]
    last,       \* history: what the most recent operation read, did and wrote
    pc,         \* per handler goroutine: the statement it is at and its locals
    wire,       \* history: per connection, the writes made to it, in order
    lock,       \* Store.Mutex: the goroutine holding Lock, those holding RLock
    handled,    \* per connection, how many frames its interleaved handler has read
    hist        \* history: Store.Set calls in order, PSYNC appends completed

replicaVars == <<rpc, sent, served, written, link, offset, consumed>>

concVars == <<pc, wire, lock, handled, hist>>

vars == <<Data, Expiries, now, slaves, open, crashed, replicaOf, rpc, sent, served,
          written, link, offset, consumed, lastSet, last, pc, wire, lock, handled,
          hist>>

-----------------------------------------------------------------------------
(* Bounds of the model. *)

MaxTime == 3        \* the clock runs from 0 to MaxTime
MaxSlaves == 2      \* PSYNC is not taken once the registry holds this many
MaxWrites == 2      \* writes the master makes to the link after the handshake
MaxFrames == 3      \* frames the interleaved handlers read in all

Conns == {"c1", "c2"}

-----------------------------------------------------------------------------
(* Bytes and the library functions the code calls on them. *)

CR == "\r"
LF == "\n"
CRLF == <<CR, LF>>

UpperCase == <<"A","B","C","D","E","F","G","H","I","J","K","L","M",
               "N","O","P","Q","R","S","T","U","V","W","X","Y","Z">>
LowerCase == <<"a","b","c","d","e","f","g","h","i","j","k","l","m",
               "n","o","p","q","r","s","t","u","v","w","x","y","z">>
Digits == <<"0","1","2","3","4","5","6","7","8","9">>

DigitSet == {Digits[i] : i \in 1..10}
DigitOf == [c \in DigitSet |-> (CHOOSE i \in 1..10 : Digits[i] = c) - 1]

IsDigit(c) == c \in DigitSet
DigitVal(c) == DigitOf[c]

UpperSet == {UpperCase[i] : i \in 1..26}
LowerOf == [c \in UpperSet |-> LowerCase[CHOOSE i \in 1..26 : UpperCase[i] = c]]

LowerChar(c) == IF c \in UpperSet THEN LowerOf[c] ELSE c

\* strings.ToLower on an ASCII string
ToLower(s) == [i \in 1..Len(s) |-> LowerChar(s[i])]

\* strings.HasPrefix(s, c) for a one-byte prefix c
HasPrefix(s, c) == Len(s) >= 1 /\ s[1] = c

RECURSIVE NatVal(_)
NatVal(ds) ==
    IF ds = <<>> THEN 0
    ELSE 10 * NatVal(SubSeq(ds, 1, Len(ds) - 1)) + DigitVal(ds[Len(ds)])

\* strconv.Atoi: an optional sign followed by at least one decimal digit
Atoi(s) ==
    LET signed == Len(s) >= 1 /\ s[1] \in {"+", "-"}
        body == IF signed THEN Tail(s) ELSE s
        ok == body # <<>> /\ \A i \in 1..Len(body) : IsDigit(body[i])
    IN  [err |-> ~ok,
         val |-> IF ~ok THEN 0
                 ELSE IF signed /\ s[1] = "-" THEN 0 - NatVal(body)
                 ELSE NatVal(body)]

RECURSIVE NatStr(_)
NatStr(n) ==
    IF n < 10 THEN <<Digits[n + 1]>>
    ELSE Append(NatStr(n \div 10), Digits[(n % 10) + 1])

\* strconv.Itoa, and the %d verb of fmt.Sprintf
Itoa(n) == IF n < 0 THEN <<"-">> \o NatStr(0 - n) ELSE NatStr(n)

\* strings.Split(s, "\r\n"): the pieces of s between the occurrences of CRLF,
\* scanned left to right (an occurrence starts where the previous one ended
\* or later, so "\r\r\n" has one)
Separators(s) == {i \in 1..(Len(s) - 1) : s[i] = CR /\ s[i + 1] = LF}

Split(s) ==
    LET seps == Separators(s)
        nth(j) == CHOOSE p \in seps : Cardinality({q \in seps : q < p}) = j - 1
    IN  [j \in 1..(Cardinality(seps) + 1) |->
            SubSeq(s, IF j = 1 THEN 1 ELSE nth(j - 1) + 2,
                      IF j = Cardinality(seps) + 1 THEN Len(s) ELSE nth(j) - 1)]

RECURSIVE Concat(_)
Concat(ss) == IF ss = <<>> THEN <<>> ELSE Head(ss) \o Concat(Tail(ss))

-----------------------------------------------------------------------------
(* Literals of the program. *)

pingResponse == <<"+","P","O","N","G">> \o CRLF
okResponse == <<"+","O","K">> \o CRLF
notFoundResponse == <<"$","-","1">> \o CRLF

ErrToken == <<"E","n","c","o","u","n","t","e","r","e","d"," ","e","r","r","o","r">>
ErrTokenDollar == ErrToken \o <<" ","w","h","i","l","e"," ","p","a","r","s","i","n","g"," ","$">>

echo == <<"e","c","h","o">>
ping == <<"p","i","n","g">>
set == <<"s","e","t">>
get == <<"g","e","t">>
info == <<"i","n","f","o">>
replconf == <<"r","e","p","l","c","o","n","f">>
psync == <<"p","s","y","n","c">>
px == <<"p","x">>

-----------------------------------------------------------------------------
(* The frame decoder. *)

\* a decoder that takes any '$' line as a length line without converting it
RECURSIVE parseLinesUnchecked(_, _, _)
parseLinesUnchecked(rest, checkLengthFlag, parsedCommands) ==
    IF rest = <<>> THEN parsedCommands
    ELSE LET v == Head(rest) IN
         IF HasPrefix(v, "$")
         THEN parseLinesUnchecked(Tail(rest), TRUE, parsedCommands)
         ELSE IF checkLengthFlag
              THEN parseLinesUnchecked(Tail(rest), FALSE, Append(parsedCommands, ToLower(v)))
              ELSE parseLinesUnchecked(Tail(rest), checkLengthFlag, parsedCommands)

RECURSIVE parseLines(_, _, _)
parseLines(rest, checkLengthFlag, parsedCommands) ==
    IF rest = <<>> THEN parsedCommands
    ELSE LET v == Head(rest) IN
         IF HasPrefix(v, "$")
         THEN IF Atoi(Tail(v)).err
              THEN <<ErrTokenDollar>>
              ELSE parseLines(Tail(rest), TRUE, parsedCommands)
         ELSE IF checkLengthFlag
              THEN parseLines(Tail(rest), FALSE, Append(parsedCommands, ToLower(v)))
              ELSE parseLines(Tail(rest), checkLengthFlag, parsedCommands)

parse(input) ==
    LET commands == Split(input) IN
    IF HasPrefix(commands[1], "*")
    THEN IF Atoi(Tail(commands[1])).err
         THEN <<ErrToken>>
         ELSE parseLines(Tail(commands), FALSE, <<>>)
    ELSE <<>>

createResponseMsg(msg) == <<"$">> \o Itoa(Len(msg)) \o CRLF \o msg \o CRLF

replid == <<"8","3","7","1","b","4","f","b","1","1","5","5","b","7","1","f","4","a","0","4",
            "d","3","e","1","b","c","3","e","1","8","c","4","a","9","9","0","a","e","e","b">>

\* The hex-decoded snapshot: a printable byte is itself, any other byte is
\* named by its code (0x0a is LF).  It holds no CR, no '*' and no '$'.
emptyRDB == <<
    "R", "E", "D", "I", "S", "0", "0", "1", "1", "0xfa",
    "0x09", "r", "e", "d", "i", "s", "-", "v", "e", "r",
    "0x05", "7", ".", "2", ".", "0", "0xfa", LF, "r", "e",
    "d", "i", "s", "-", "b", "i", "t", "s", "0xc0", "@",
    "0xfa", "0x05", "c", "t", "i", "m", "e", "0xc2", "m", "0x08",
    "0xbc", "e", "0xfa", "0x08", "u", "s", "e", "d", "-", "m",
    "e", "m", "0xc2", "0xb0", "0xc4", "0x10", "0x00", "0xfa", "0x08", "a",
    "o", "f", "-", "b", "a", "s", "e", "0xc0", "0x00", "0xff",
    "0xf0", "n", ";", "0xfe", "0xc0", "0xff", "Z", "0xa2" >>

fullResync == <<"+","F","U","L","L","R","E","S","Y","N","C"," ">> \o replid \o <<" ","0">> \o CRLF
rdbTransfer == <<"$">> \o Itoa(Len(emptyRDB)) \o CRLF \o emptyRDB

infoMaster == <<"r","o","l","e",":","m","a","s","t","e","r">>
              \o <<"m","a","s","t","e","r","_","r","e","p","l","i","d",":">> \o replid \o CRLF
              \o <<"m","a","s","t","e","r","_","r","e","p","l","_","o","f","f","s","e","t",":","0">> \o CRLF
infoSlave == <<"r","o","l","e",":","s","l","a","v","e">>

-----------------------------------------------------------------------------
(* The store.  A map is a function whose domain is the set of keys present. *)

Put(m, k, v) == [x \in (DOMAIN m) \cup {k} |-> IF x = k THEN v ELSE m[x]]
Delete(m, k) == [x \in (DOMAIN m) \ {k} |-> m[x]]

NewStore == [Data |-> <<>>, Expiries |-> <<>>]

\* Store.Set that leaves a prior expiry in place when ttl is zero
SetKeepExpiry(s, key, value, ttl, t) ==
    [Data |-> Put(s.Data, key, value),
     Expiries |-> IF ttl > 0 THEN Put(s.Expiries, key, t + ttl) ELSE s.Expiries]

\* Store.Set at instant t; ttl is a duration in milliseconds
Set(s, key, value, ttl, t) ==
    [Data |-> Put(s.Data, key, value),
     Expiries |-> IF ttl > 0 THEN Put(s.Expiries, key, t + ttl)
                  ELSE Delete(s.Expiries, key)]

\* Store.Get whose eviction forgets the expiry map
GetEvictDataOnly(s, key, t) ==
    IF key \in DOMAIN s.Expiries /\ t > s.Expiries[key]
    THEN [val |-> <<>>, ok |-> FALSE,
          store |-> [Data |-> Delete(s.Data, key), Expiries |-> s.Expiries]]
    ELSE [val |-> IF key \in DOMAIN s.Data THEN s.Data[key] ELSE <<>>,
          ok |-> key \in DOMAIN s.Data,
          store |-> s]

\* Store.Get at instant t: the returned pair and the store it leaves
Get(s, key, t) ==
    IF key \in DOMAIN s.Expiries /\ t > s.Expiries[key]
    THEN [val |-> <<>>, ok |-> FALSE,
          store |-> [Data |-> Delete(s.Data, key),
                     Expiries |-> Delete(s.Expiries, key)]]
    ELSE [val |-> IF key \in DOMAIN s.Data THEN s.Data[key] ELSE <<>>,
          ok |-> key \in DOMAIN s.Data,
          store |-> s]

store == [Data |-> Data, Expiries |-> Expiries]

-----------------------------------------------------------------------------
(* The command dispatcher: one iteration of handleConnection's loop. *)

Write(to, bytes) == [to |-> to, bytes |-> bytes]

\* the ttl the SET branch computes, in milliseconds
\* (the int64 nanosecond product is not modelled: PX values stay small)
setTTL(commands) ==
    IF Len(commands) = 5 /\ commands[4] = px /\ ~Atoi(commands[5]).err
    THEN Atoi(commands[5]).val
    ELSE 0

\* a forward that serializes every argument of the command, PX included
forwardWholeCommand(commands) ==
    <<"*">> \o Itoa(Len(commands)) \o CRLF
    \o Concat([i \in 1..Len(commands) |->
                  <<"$">> \o Itoa(Len(commands[i])) \o CRLF
                  \o (IF i = 1 THEN <<"S","E","T">> ELSE commands[i]) \o CRLF])

\* the frame written to each replica for a SET
forwardFrame(commands) ==
    <<"*","3">> \o CRLF \o <<"$","3">> \o CRLF \o <<"S","E","T">> \o CRLF
    \o <<"$">> \o Itoa(Len(commands[2])) \o CRLF \o commands[2] \o CRLF
    \o <<"$">> \o Itoa(Len(commands[3])) \o CRLF \o commands[3] \o CRLF

\* for _, slave := range slaves { slave.Write(...) }
forwardAll(sl, commands) == [i \in 1..Len(sl) |-> Write(sl[i], forwardFrame(commands))]

Reply(connection, isMaster, bytes) ==
    IF isMaster THEN <<>> ELSE <<Write(connection, bytes)>>

Effect(s, sl, writes) == [store |-> s, slaves |-> sl, writes |-> writes, panic |-> FALSE]
Panic(s, sl) == [store |-> s, slaves |-> sl, writes |-> <<>>, panic |-> TRUE]

\* switch commands[0] { ... } on a non-empty frame, at instant t, in a process
\* started with -replicaof role, on store s and registry sl
dispatch(connection, commands, isMaster, s, sl, t, role) ==
    CASE commands[1] = echo ->
           IF Len(commands) < 2 THEN Panic(s, sl)      \* commands[1] out of range
           ELSE Effect(s, sl, Reply(connection, isMaster, createResponseMsg(commands[2])))
      [] commands[1] = ping ->
           Effect(s, sl, Reply(connection, isMaster, pingResponse))
      [] commands[1] = set ->
           IF Len(commands) >= 3
           THEN Effect(Set(s, commands[2], commands[3], setTTL(commands), t), sl,
                       forwardAll(sl, commands) \o Reply(connection, isMaster, okResponse))
           ELSE Effect(s, sl, <<>>)
      [] commands[1] = get ->
           IF Len(commands) < 2 THEN Panic(s, sl)      \* commands[1] out of range
           ELSE LET r == Get(s, commands[2], t) IN
                Effect(r.store, sl,
                       Reply(connection, isMaster,
                             IF r.ok THEN createResponseMsg(r.val) ELSE notFoundResponse))
      [] commands[1] = info ->
           Effect(s, sl, Reply(connection, isMaster,
                               createResponseMsg(IF role # "" THEN infoSlave ELSE infoMaster)))
      [] commands[1] = replconf ->
           Effect(s, sl, Reply(connection, isMaster, okResponse))
      [] commands[1] = psync ->
           Effect(s, Append(sl, connection),
                  Reply(connection, isMaster, fullResync)
                  \o Reply(connection, isMaster, rdbTransfer))
      [] OTHER -> Effect(s, sl, <<>>)

-----------------------------------------------------------------------------
(* What a peer puts on the wire.  A request frame of argc arguments is     *)
(* "*<argc>\r\n" followed by "$<len>\r\n<arg>\r\n" for each argument, as   *)
(* in pingMessage and the handshake literals.  An input of a read is the   *)
(* bytes the read returns together with the complete frames the peer       *)
(* encoded to produce them (none when the bytes are cut short or are not   *)
(* frames at all).                                                         *)

RECURSIVE EncodeArgs(_)
EncodeArgs(args) ==
    IF args = <<>> THEN <<>>
    ELSE <<"$">> \o Itoa(Len(Head(args))) \o CRLF \o Head(args) \o CRLF
         \o EncodeArgs(Tail(args))

Encode(frame) == <<"*">> \o Itoa(Len(frame)) \o CRLF \o EncodeArgs(frame)

RECURSIVE EncodeAll(_)
EncodeAll(frames) ==
    IF frames = <<>> THEN <<>> ELSE Encode(Head(frames)) \o EncodeAll(Tail(frames))

Whole(frames) == [buf |-> EncodeAll(frames), frames |-> frames]
Truncated(frame, n) == [buf |-> SubSeq(Encode(frame), 1, n), frames |-> <<>>]
Raw(bytes) == [buf |-> bytes, frames |-> <<>>]

PING == <<"P","I","N","G">>
ECHO == <<"E","C","H","O">>
SET == <<"S","E","T">>
GET == <<"G","E","T">>
INFO == <<"I","N","F","O">>
REPLCONF == <<"R","E","P","L","C","O","N","F">>
PSYNC == <<"P","S","Y","N","C">>
PX == <<"P","X">>
GETACK == <<"G","E","T","A","C","K">>

keyA == <<"a">>
keyB == <<"b">>
valX == <<"x">>
valY == <<"Y">>
msgHi == <<"H","i">>

pingFrame == <<PING>>
setAX == <<SET, keyA, valX>>
setAYpx == <<SET, keyA, valY, PX, <<"1">>>>
setBY == <<<<"s","e","t">>, keyB, valY>>
psyncFrame == <<PSYNC, <<"?">>, <<"-","1">>>>

ClientInputs ==
    { Whole(<<pingFrame>>),
      Whole(<<<<ECHO, msgHi>>>>),
      Whole(<<<<ECHO>>>>),
      Whole(<<setAX>>),
      Whole(<<setAYpx>>),
      Whole(<<setBY>>),
      Whole(<<<<SET, keyA, valX, PX, <<"-","1">>>>>>),
      Whole(<<<<SET, keyA>>>>),
      Whole(<<<<GET, keyA>>>>),
      Whole(<<<<GET>>>>),
      Whole(<<<<INFO>>>>),
      Whole(<<<<REPLCONF, GETACK, <<"*">>>>>>),
      Whole(<<psyncFrame>>),
      Whole(<<pingFrame, pingFrame>>),
      Whole(<<setAX, setBY>>),
      Truncated(setAX, Len(Encode(<<SET, keyA>>))),
      Truncated(<<ECHO, msgHi>>, Len(Encode(<<ECHO, msgHi>>)) - 3),
      Raw(<<"*","b","o","g","u","s">> \o CRLF \o EncodeArgs(pingFrame)),
      Raw(<<"*","1">> \o CRLF \o <<"$","x">> \o CRLF \o PING \o CRLF),
      Raw(PING \o CRLF) }

\* each input with the frame the decoder returns for its bytes
Decode(inputs) ==
    { [buf |-> in.buf, frames |-> in.frames, commands |-> parse(in.buf)] : in \in inputs }

ClientReads == Decode(ClientInputs)

-----------------------------------------------------------------------------
(* The server process: connection handlers on a shared store and registry. *)

NoOp == [op |-> "none"]

InitStore ==
    /\ Data = NewStore.Data
    /\ Expiries = NewStore.Expiries
    /\ now = 0

\* no handler goroutine is being followed statement by statement
InitConcIdle ==
    /\ pc = <<>>
    /\ wire = <<>>
    /\ lock = [writer |-> "", readers |-> {}]
    /\ handled = <<>>
    /\ hist = [sets |-> <<>>, psyncs |-> {}]

InitReplicaIdle ==
    /\ rpc = "none"
    /\ sent = <<>>
    /\ served = 0
    /\ written = 0
    /\ link = <<>>
    /\ offset = 0
    /\ consumed = 0

Init ==
    /\ InitStore
    /\ slaves = <<>>
    /\ open = Conns
    /\ crashed = FALSE
    /\ replicaOf = ""
    /\ InitReplicaIdle
    /\ lastSet = <<>>
    /\ last = NoOp
    /\ InitConcIdle

\* one iteration of handleConnection's loop on connection c: Read returns
\* in.buf, which is decoded and dispatched
HandleRead(c, in) ==
    LET commands == in.commands IN
    /\ ~crashed
    /\ c \in open
    /\ (commands # <<>> /\ commands[1] = psync) => Len(slaves) < MaxSlaves
    /\ LET e == IF commands = <<>> THEN Effect(store, slaves, <<>>)
                ELSE dispatch(c, commands, FALSE, store, slaves, now, replicaOf)
       IN  /\ Data' = e.store.Data
           /\ Expiries' = e.store.Expiries
           /\ slaves' = e.slaves
           /\ crashed' = e.panic
           /\ last' = [op |-> "read", conn |-> c, buf |-> in.buf, frames |-> in.frames,
                       commands |-> commands, writes |-> e.writes, panic |-> e.panic,
                       pre |-> [Data |-> Data, Expiries |-> Expiries, slaves |-> slaves]]
    /\ UNCHANGED <<now, open, replicaOf, replicaVars, lastSet,
                   concVars>>

\* Read fails or returns no bytes: the handler returns and closes c
HandleClose(c) ==
    /\ ~crashed
    /\ c \in open
    /\ open' = open \ {c}
    /\ UNCHANGED <<Data, Expiries, now, slaves, crashed, replicaOf, replicaVars, lastSet, last,
                   concVars>>

Tick ==
    /\ now < MaxTime
    /\ now' = now + 1
    /\ UNCHANGED <<Data, Expiries, slaves, open, crashed, replicaOf, replicaVars, lastSet, last,
                   concVars>>

Next ==
    \/ \E c \in Conns, in \in ClientReads : HandleRead(c, in)
    \/ \E c \in Conns : HandleClose(c)
    \/ Tick

Spec == Init /\ [][Next]_vars

-----------------------------------------------------------------------------
(* The store on its own: Set and Get called directly, with the clock       *)
(* moving between calls.                                                   *)

StoreKeys == {keyA, keyB}
StoreVals == {<<"x">>, <<"y">>}
StoreTTLs == {0, 1, 2}

InitStoreOnly ==
    /\ InitStore
    /\ slaves = <<>>
    /\ open = {}
    /\ crashed = FALSE
    /\ replicaOf = ""
    /\ InitReplicaIdle
    /\ lastSet = <<>>
    /\ last = NoOp
    /\ InitConcIdle

\* store.Set(key, value, ttl); the history keeps what the call was given and
\* whether it found an expiry entry for the key, elapsed ("stale") or not
StoreSet(key, value, ttl) ==
    LET s == Set(store, key, value, ttl, now) IN
    /\ Data' = s.Data
    /\ Expiries' = s.Expiries
    /\ lastSet' = Put(lastSet, key,
                      [value |-> value, ttl |-> ttl, at |-> now,
                       prior |-> IF key \notin DOMAIN Expiries THEN "none"
                                 ELSE IF now > Expiries[key] THEN "stale"
                                 ELSE "live"])
    /\ last' = [op |-> "set", key |-> key]
    /\ UNCHANGED <<now, slaves, open, crashed, replicaOf, replicaVars,
                   concVars>>

\* store.Get(key)
StoreGet(key) ==
    LET r == Get(store, key, now) IN
    /\ Data' = r.store.Data
    /\ Expiries' = r.store.Expiries
    /\ last' = [op |-> "get", key |-> key, val |-> r.val, ok |-> r.ok, at |-> now]
    /\ UNCHANGED <<now, slaves, open, crashed, replicaOf, replicaVars, lastSet,
                   concVars>>

NextStore ==
    \/ \E k \in StoreKeys, v \in StoreVals, ttl \in StoreTTLs : StoreSet(k, v, ttl)
    \/ \E k \in StoreKeys : StoreGet(k)
    \/ Tick

SpecStore == InitStoreOnly /\ [][NextStore]_vars

-----------------------------------------------------------------------------
(* The replica: replicateMaster's handshake and receive loop, fed by a     *)
(* master.  The link holds the master's writes in order, each with the     *)
(* code that made it: "reply" (an answer to a handshake frame), "fwd" (a   *)
(* SET forwarded to the registry) or "probe" (traffic a master originates, *)
(* such as REPLCONF GETACK).  The master's store is not tracked here: it   *)
(* has no influence on what the master writes to a replica.                *)

BuffSize == 1024
ReplicaConn == "c1"
ClientConn == "c2"
LocalConn == "c3"

pingMessage == Encode(<<PING>>)
replconfPort ==
    Encode(<<REPLCONF, <<"l","i","s","t","e","n","i","n","g","-","p","o","r","t">>,
             <<"6","3","8","0">>>>)
replconfCapa == Encode(<<REPLCONF, <<"c","a","p","a">>, <<"p","s","y","n","c","2">>>>)
psyncMessage == Encode(psyncFrame)

\* a handshake that announces its capabilities before its port
HandshakeCapaFirst ==
    [ping |-> [msg |-> pingMessage, next |-> "capa"],
     capa |-> [msg |-> replconfCapa, next |-> "port"],
     port |-> [msg |-> replconfPort, next |-> "psync"],
     psync |-> [msg |-> psyncMessage, next |-> "loop"]]

Handshake ==
    [ping |-> [msg |-> pingMessage, next |-> "port"],
     port |-> [msg |-> replconfPort, next |-> "capa"],
     capa |-> [msg |-> replconfCapa, next |-> "psync"],
     psync |-> [msg |-> psyncMessage, next |-> "loop"]]

ackFrame(off) ==
    <<"*","3">> \o CRLF \o <<"$","8">> \o CRLF \o REPLCONF \o CRLF
    \o <<"$","3">> \o CRLF \o <<"A","C","K">> \o CRLF
    \o <<"$">> \o Itoa(Len(Itoa(off))) \o CRLF \o Itoa(off) \o CRLF

Received(s, off, writes, applied) ==
    [store |-> s, offset |-> off, writes |-> writes, applied |-> applied]

\* a receive loop that acknowledges whatever it receives
receiveAckEverything(commands, n, s, off, t) ==
    CASE commands[1] = set ->
           IF Len(commands) >= 3
           THEN Received(Set(s, commands[2], commands[3], setTTL(commands), t),
                         off + n, <<ackFrame(off)>>, TRUE)
           ELSE Received(s, off, <<>>, FALSE)
      [] OTHER -> Received(s, off + n, <<ackFrame(off)>>, FALSE)

\* a receive loop that counts the probe before it acknowledges
receiveCountThenAck(commands, n, s, off, t) ==
    CASE commands[1] = set ->
           IF Len(commands) >= 3
           THEN Received(Set(s, commands[2], commands[3], setTTL(commands), t),
                         off + n, <<>>, TRUE)
           ELSE Received(s, off, <<>>, FALSE)
      [] commands[1] = replconf ->
           Received(s, off + n, <<ackFrame(off + n)>>, FALSE)
      [] OTHER -> Received(s, off + n, <<>>, FALSE)

\* switch commands[0] { ... } of the receive loop on a non-empty frame decoded
\* from a read of n bytes, at instant t, on store s and offset off
receive(commands, n, s, off, t) ==
    CASE commands[1] = set ->
           IF Len(commands) >= 3
           THEN Received(Set(s, commands[2], commands[3], setTTL(commands), t),
                         off + n, <<>>, TRUE)
           ELSE Received(s, off, <<>>, FALSE)
      [] commands[1] = replconf ->
           Received(s, off + n, <<ackFrame(off)>>, FALSE)
      [] OTHER -> Received(s, off + n, <<>>, FALSE)

\* a write on the link; cut marks what is left of one that was read in part
Chunk(src, bytes) == [src |-> src, bytes |-> bytes, cut |-> FALSE]
LinkBytes(l) == Concat([i \in 1..Len(l) |-> l[i].bytes])

\* the link after its first n bytes have been read
RECURSIVE Drop(_, _)
Drop(l, n) ==
    IF n = 0 THEN l
    ELSE IF n >= Len(Head(l).bytes) THEN Drop(Tail(l), n - Len(Head(l).bytes))
    ELSE <<[Chunk(Head(l).src, SubSeq(Head(l).bytes, n + 1, Len(Head(l).bytes)))
               EXCEPT !.cut = TRUE]>>
         \o Tail(l)

\* the origins of the first n bytes of the link
RECURSIVE Origins(_, _)
Origins(l, n) ==
    IF n = 0 THEN <<>>
    ELSE IF n >= Len(Head(l).bytes)
         THEN <<Head(l).src>> \o Origins(Tail(l), n - Len(Head(l).bytes))
         ELSE <<Head(l).src>>

\* ends of the writes held by the link, as byte counts from its head
RECURSIVE WriteEnds(_)
WriteEnds(l) ==
    IF l = <<>> THEN {}
    ELSE {Len(Head(l).bytes)} \cup {Len(Head(l).bytes) + e : e \in WriteEnds(Tail(l))}

\* Byte counts a Read may return: up to the buffer size, either a whole number
\* of the master's writes or a part of the oldest one that ends with a line
\* (reads cut inside a line, and a second cut of one write, are not explored).
ReadSizes(l) ==
    IF l = <<>> THEN {}
    ELSE LET first == Head(l).bytes IN
         {n \in WriteEnds(l) : n <= BuffSize}
         \cup {n \in 2..Len(first) :
                  /\ ~Head(l).cut
                  /\ n <= BuffSize /\ first[n - 1] = CR /\ first[n] = LF}

\* what the master writes to connection c when it dispatches commands
WritesTo(c, e, src) ==
    LET mine == SelectSeq(e.writes, LAMBDA w : w.to = c)
    IN  [i \in 1..Len(mine) |-> Chunk(src, mine[i].bytes)]

setAXpx == <<SET, keyA, valX, PX, <<"1">>>>

MasterSetReads == Decode({Whole(<<setAYpx>>)})
LocalSetReads == Decode({Whole(<<setAXpx>>)})

ProbeFrames ==
    { Encode(<<REPLCONF, GETACK, <<"*">>>>),
      Encode(<<PING>>),
      Encode(<<SET, keyA>>),
      <<"*","b","o","g","u","s">> \o CRLF }

InitReplica ==
    /\ InitStore
    /\ slaves = <<>>
    /\ open = {ReplicaConn, ClientConn}
    /\ crashed = FALSE
    /\ replicaOf = "localhost 6379"
    /\ rpc = "dial"
    /\ sent = <<>>
    /\ served = 0
    /\ written = 0
    /\ link = <<>>
    /\ offset = 0
    /\ consumed = 0
    /\ lastSet = <<>>
    /\ last = NoOp
    /\ InitConcIdle

\* net.Dial succeeds
Dial ==
    /\ rpc = "dial"
    /\ rpc' = "ping"
    /\ UNCHANGED <<Data, Expiries, now, slaves, open, crashed, replicaOf, sent, served,
                   written, link, offset, consumed, lastSet, last,
                   concVars>>

\* masterConn.Write of the next handshake frame (and the Sleep before the
\* one after it)
HandshakeSend ==
    /\ rpc \in DOMAIN Handshake
    /\ sent' = Append(sent, Handshake[rpc].msg)
    /\ rpc' = Handshake[rpc].next
    /\ UNCHANGED <<Data, Expiries, now, slaves, open, crashed, replicaOf, served,
                   written, link, offset, consumed, lastSet, last,
                   concVars>>

\* the master's handler of the replica's connection reads the next handshake
\* frame and dispatches it
MasterServe ==
    /\ served < Len(sent)
    /\ LET e == dispatch(ReplicaConn, parse(sent[served + 1]), FALSE, NewStore, slaves,
                         now, "")
       IN  /\ slaves' = e.slaves
           /\ link' = link \o WritesTo(ReplicaConn, e, "reply")
    /\ served' = served + 1
    /\ UNCHANGED <<Data, Expiries, now, open, crashed, replicaOf, rpc, sent, written,
                   offset, consumed, lastSet, last,
                   concVars>>

\* the master's handler of a client connection dispatches a SET and so
\* forwards it to the registry
MasterForward(in) ==
    /\ written < MaxWrites
    /\ slaves # <<>>
    /\ LET e == dispatch(ClientConn, in.commands, FALSE, NewStore, slaves, now, "")
       IN  link' = link \o WritesTo(ReplicaConn, e, "fwd")
    /\ written' = written + 1
    /\ UNCHANGED <<Data, Expiries, now, slaves, open, crashed, replicaOf, rpc, sent,
                   served, offset, consumed, lastSet, last,
                   concVars>>

\* a master writes a frame of its own to a replica that has sent PSYNC
MasterProbe(bytes) ==
    /\ written < MaxWrites
    /\ served = 4
    /\ link' = Append(link, Chunk("probe", bytes))
    /\ written' = written + 1
    /\ UNCHANGED <<Data, Expiries, now, slaves, open, crashed, replicaOf, rpc, sent,
                   served, offset, consumed, lastSet, last,
                   concVars>>

\* one iteration of the receive loop: Read returns the first n bytes of the
\* link
ReplicaRead(n) ==
    /\ rpc = "loop"
    /\ LET buf == SubSeq(LinkBytes(link), 1, n)
           commands == parse(buf)
           r == IF commands = <<>> THEN Received(store, offset, <<>>, FALSE)
                ELSE receive(commands, n, store, offset, now)
       IN  /\ Data' = r.store.Data
           /\ Expiries' = r.store.Expiries
           /\ offset' = r.offset
           /\ last' = [op |-> "recv", n |-> n, origins |-> Origins(link, n),
                       commands |-> commands, writes |-> r.writes,
                       applied |-> r.applied, offsetBefore |-> offset,
                       expiriesBefore |-> Expiries]
    /\ consumed' = consumed + n
    /\ link' = Drop(link, n)
    /\ UNCHANGED <<now, slaves, open, crashed, replicaOf, rpc, sent, served, written,
                   lastSet,
                   concVars>>

\* a client of the replica process sets a key with a TTL: an iteration of
\* handleConnection on the replica's store (nothing has sent PSYNC to the
\* replica, so its own registry is empty)
ReplicaLocalSet(in) ==
    /\ rpc # "done"
    /\ LET e == dispatch(LocalConn, in.commands, FALSE, store, <<>>, now, replicaOf)
       IN  /\ Data' = e.store.Data
           /\ Expiries' = e.store.Expiries
           /\ last' = [op |-> "read", conn |-> LocalConn, buf |-> in.buf,
                       frames |-> in.frames, commands |-> in.commands,
                       writes |-> e.writes, panic |-> e.panic,
                       pre |-> [Data |-> Data, Expiries |-> Expiries, slaves |-> <<>>]]
    /\ UNCHANGED <<now, slaves, open, crashed, replicaOf, replicaVars, lastSet,
                   concVars>>

\* Read fails or returns no bytes: replicateMaster returns
ReplicaStop ==
    /\ rpc = "loop"
    /\ rpc' = "done"
    /\ UNCHANGED <<Data, Expiries, now, slaves, open, crashed, replicaOf, sent, served,
                   written, link, offset, consumed, lastSet, last,
                   concVars>>

NextReplica ==
    \/ Dial
    \/ HandshakeSend
    \/ MasterServe
    \/ \E in \in MasterSetReads : MasterForward(in)
    \/ \E bytes \in ProbeFrames : MasterProbe(bytes)
    \/ \E n \in ReadSizes(link) : ReplicaRead(n)
    \/ \E in \in LocalSetReads : ReplicaLocalSet(in)
    \/ ReplicaStop

SpecReplica == InitReplica /\ [][NextReplica]_vars

-----------------------------------------------------------------------------
(* The replica's link when the dial or a handshake write can fail.  The    *)
(* master serves whatever frames did reach it; the replica's listener and  *)
(* its clients are left out.                                               *)

\* where replicateMaster goes when the Write of a handshake step returns an
\* error: only the PING write is checked, and it ends in os.Exit(1)
afterFailedSend(step) == IF step = "ping" THEN "exit" ELSE Handshake[step].next

\* net.Dial returns an error: it is printed, masterConn is nil and the
\* deferred masterConn.Close() (or the first Write) panics
DialFail ==
    /\ rpc = "dial"
    /\ rpc' = "panic"
    /\ crashed' = TRUE
    /\ last' = [op |-> "dialfail"]
    /\ UNCHANGED <<Data, Expiries, now, slaves, open, replicaOf, sent, served,
                   written, link, offset, consumed, lastSet,
                   concVars>>

\* masterConn.Write of the next handshake frame returns an error
HandshakeSendFail ==
    /\ rpc \in DOMAIN Handshake
    /\ rpc' = afterFailedSend(rpc)
    /\ last' = [op |-> "sendfail", step |-> rpc]
    /\ UNCHANGED <<Data, Expiries, now, slaves, open, crashed, replicaOf, sent, served,
                   written, link, offset, consumed, lastSet,
                   concVars>>

NextHandshake ==
    \/ Dial
    \/ DialFail
    \/ HandshakeSend
    \/ HandshakeSendFail
    \/ MasterServe
    \/ \E n \in ReadSizes(link) : ReplicaRead(n)
    \/ ReplicaStop
    \/ Tick

SpecHandshake == InitReplica /\ [][NextHandshake]_vars

-----------------------------------------------------------------------------
(* The master with its handler goroutines interleaved statement by         *)
(* statement: the PSYNC, SET and GET branches of handleConnection, and     *)
(* Store.Set and Store.Get inside them, one action per statement; PSYNC    *)
(* and SET in one specification, SET and GET under a moving clock in       *)
(* another.  The goroutines share slaves and the store; nothing but        *)
(* Store.Mutex orders them.  A racing read of slaves or of a map returns   *)
(* what some write left there: the old value or the new one, depending on  *)
(* the interleaving, never a torn one.                                     *)

ConcConns == {"c1", "c2", "c3"}

getA == <<GET, keyA>>
ConcReads == Decode({Whole(<<psyncFrame>>), Whole(<<setAX>>), Whole(<<setAYpx>>)})
LockReads == Decode({Whole(<<setAYpx>>), Whole(<<getA>>)})

Miss == [val |-> <<>>, ok |-> FALSE]
NoFrame == [conn |-> "", n |-> 0]
Idle == [at |-> "idle", commands |-> <<>>, local |-> <<>>, i |-> 0, id |-> NoFrame,
         res |-> Miss]

\* the n-th frame read on connection c
Frame(c, n) == [conn |-> c, n |-> n]

RECURSIVE Total(_)
Total(f) ==
    IF DOMAIN f = {} THEN 0
    ELSE LET c == CHOOSE x \in DOMAIN f : TRUE
         IN  f[c] + Total([x \in DOMAIN f \ {c} |-> f[x]])

\* a write of frame id as the connection receives it
Sent(bytes, id) == [bytes |-> bytes, id |-> id]

\* the first statement of the branch the switch takes
branch(commands) ==
    CASE commands[1] = psync -> "load"
      [] commands[1] = set -> IF Len(commands) >= 3 THEN "range" ELSE "idle"
      [] commands[1] = get -> "rlock"
      [] OTHER -> "idle"

\* a SET branch that replies before it stores
setNextReplyFirst == [fwd |-> "reply", reply |-> "lock", store |-> "idle"]

\* the statement that follows the forward loop, store.Set and the reply in
\* the SET branch
setNext == [fwd |-> "lock", store |-> "reply", reply |-> "idle"]

\* goroutine c moves to statement at, keeping its locals unless it is done
Goto(c, at) ==
    IF at = "idle" THEN [pc EXCEPT ![c] = Idle] ELSE [pc EXCEPT ![c].at = at]

InitConc ==
    /\ InitStore
    /\ slaves = <<>>
    /\ open = ConcConns
    /\ crashed = FALSE
    /\ replicaOf = ""
    /\ InitReplicaIdle
    /\ lastSet = <<>>
    /\ last = NoOp
    /\ pc = [c \in ConcConns |-> Idle]
    /\ wire = [c \in ConcConns |-> <<>>]
    /\ lock = [writer |-> "", readers |-> {}]
    /\ handled = [c \in ConcConns |-> 0]
    /\ hist = [sets |-> <<>>, psyncs |-> {}]

restVars == <<open, crashed, replicaOf, replicaVars, lastSet, last>>

\* connection.Read and parse: the handler of c takes its next frame
ConcRead(c, in) ==
    /\ pc[c].at = "idle"
    /\ Total(handled) < MaxFrames
    /\ handled' = [handled EXCEPT ![c] = @ + 1]
    /\ pc' = [pc EXCEPT ![c] =
                 IF branch(in.commands) = "idle" THEN Idle
                 ELSE [Idle EXCEPT !.at = branch(in.commands),
                                   !.commands = in.commands,
                                   !.id = Frame(c, handled[c] + 1)]]
    /\ UNCHANGED <<Data, Expiries, now, slaves, wire, lock, hist, restVars>>

\* append(slaves, connection) reads the slice ...
PsyncLoad(c) ==
    /\ pc[c].at = "load"
    /\ pc' = [pc EXCEPT ![c].at = "append", ![c].local = slaves]
    /\ UNCHANGED <<Data, Expiries, now, slaves, wire, lock, handled, hist, restVars>>

\* ... and slaves = ... stores the longer one
PsyncAppend(c) ==
    /\ pc[c].at = "append"
    /\ slaves' = Append(pc[c].local, c)
    /\ hist' = [hist EXCEPT !.psyncs = @ \cup {c}]
    /\ pc' = Goto(c, "resync")
    /\ UNCHANGED <<Data, Expiries, now, wire, lock, handled, restVars>>

\* connection.Write("+FULLRESYNC ...")
PsyncResync(c) ==
    /\ pc[c].at = "resync"
    /\ wire' = [wire EXCEPT ![c] = Append(@, Sent(fullResync, pc[c].id))]
    /\ pc' = Goto(c, "rdb")
    /\ UNCHANGED <<Data, Expiries, now, slaves, lock, handled, hist, restVars>>

\* connection.Write of the length-prefixed snapshot
PsyncRdb(c) ==
    /\ pc[c].at = "rdb"
    /\ wire' = [wire EXCEPT ![c] = Append(@, Sent(rdbTransfer, pc[c].id))]
    /\ pc' = Goto(c, "idle")
    /\ UNCHANGED <<Data, Expiries, now, slaves, lock, handled, hist, restVars>>

\* for _, slave := range slaves: the range expression is evaluated once
SetRange(c) ==
    /\ pc[c].at = "range"
    /\ pc' = [pc EXCEPT ![c].at = IF slaves = <<>> THEN setNext.fwd ELSE "fwd",
                        ![c].local = slaves,
                        ![c].i = 1]
    /\ UNCHANGED <<Data, Expiries, now, slaves, wire, lock, handled, hist, restVars>>

\* slave.Write of the forwarded frame, one iteration of the loop
SetForward(c) ==
    /\ pc[c].at = "fwd"
    /\ LET h == pc[c] IN
       /\ wire' = [wire EXCEPT ![h.local[h.i]] =
                       Append(@, Sent(forwardFrame(h.commands), h.id))]
       /\ pc' = IF h.i = Len(h.local) THEN Goto(c, setNext.fwd)
                ELSE [pc EXCEPT ![c].i = h.i + 1]
    /\ UNCHANGED <<Data, Expiries, now, slaves, lock, handled, hist, restVars>>

\* s.Mutex.Lock() of Store.Set
SetLock(c) ==
    /\ pc[c].at = "lock"
    /\ lock.writer = "" /\ lock.readers = {}
    /\ lock' = [lock EXCEPT !.writer = c]
    /\ pc' = Goto(c, "store")
    /\ UNCHANGED <<Data, Expiries, now, slaves, wire, handled, hist, restVars>>

\* the body of Store.Set and its deferred Unlock
SetStore(c) ==
    /\ pc[c].at = "store"
    /\ LET h == pc[c]
           s == Set(store, h.commands[2], h.commands[3], setTTL(h.commands), now)
       IN  /\ Data' = s.Data
           /\ Expiries' = s.Expiries
           /\ hist' = [hist EXCEPT !.sets =
                          Append(@, [id |-> h.id, conn |-> c, key |-> h.commands[2],
                                     value |-> h.commands[3]])]
    /\ lock' = [lock EXCEPT !.writer = ""]
    /\ pc' = Goto(c, setNext.store)
    /\ UNCHANGED <<now, slaves, wire, handled, restVars>>

\* connection.Write(okResponse)
SetReply(c) ==
    /\ pc[c].at = "reply"
    /\ wire' = [wire EXCEPT ![c] = Append(@, Sent(okResponse, pc[c].id))]
    /\ pc' = Goto(c, setNext.reply)
    /\ UNCHANGED <<Data, Expiries, now, slaves, lock, handled, hist, restVars>>

\* s.Mutex.RLock() of Store.Get
GetRLock(c) ==
    /\ pc[c].at = "rlock"
    /\ lock.writer = ""
    /\ lock' = [lock EXCEPT !.readers = @ \cup {c}]
    /\ pc' = Goto(c, "check")
    /\ UNCHANGED <<Data, Expiries, now, slaves, wire, handled, hist, restVars>>

\* if expiry, exists := s.Expiries[key]; exists && time.Now().After(expiry)
GetCheck(c) ==
    /\ pc[c].at = "check"
    /\ LET key == pc[c].commands[2] IN
       pc' = Goto(c, IF key \in DOMAIN Expiries /\ now > Expiries[key]
                     THEN "delData" ELSE "read")
    /\ UNCHANGED <<Data, Expiries, now, slaves, wire, lock, handled, hist, restVars>>

\* delete(s.Data, key)
GetDelData(c) ==
    /\ pc[c].at = "delData"
    /\ Data' = Delete(Data, pc[c].commands[2])
    /\ pc' = Goto(c, "delExp")
    /\ UNCHANGED <<Expiries, now, slaves, wire, lock, handled, hist, restVars>>

\* delete(s.Expiries, key); return "", false
GetDelExp(c) ==
    /\ pc[c].at = "delExp"
    /\ Expiries' = Delete(Expiries, pc[c].commands[2])
    /\ pc' = [pc EXCEPT ![c].at = "runlock", ![c].res = Miss]
    /\ UNCHANGED <<Data, now, slaves, wire, lock, handled, hist, restVars>>

\* val, ok := s.Data[key]; return val, ok
GetRead(c) ==
    /\ pc[c].at = "read"
    /\ LET key == pc[c].commands[2] IN
       pc' = [pc EXCEPT ![c].at = "runlock",
                        ![c].res = IF key \in DOMAIN Data
                                   THEN [val |-> Data[key], ok |-> TRUE]
                                   ELSE Miss]
    /\ UNCHANGED <<Data, Expiries, now, slaves, wire, lock, handled, hist, restVars>>

\* the deferred s.Mutex.RUnlock()
GetRUnlock(c) ==
    /\ pc[c].at = "runlock"
    /\ lock' = [lock EXCEPT !.readers = @ \ {c}]
    /\ pc' = Goto(c, "answer")
    /\ UNCHANGED <<Data, Expiries, now, slaves, wire, handled, hist, restVars>>

\* connection.Write of the bulk string or of the null bulk string
GetReply(c) ==
    /\ pc[c].at = "answer"
    /\ LET r == pc[c].res IN
       wire' = [wire EXCEPT ![c] =
                   Append(@, Sent(IF r.ok THEN createResponseMsg(r.val)
                                  ELSE notFoundResponse, pc[c].id))]
    /\ pc' = Goto(c, "idle")
    /\ UNCHANGED <<Data, Expiries, now, slaves, lock, handled, hist, restVars>>

NextConc ==
    \/ \E c \in ConcConns, in \in ConcReads : ConcRead(c, in)
    \/ \E c \in ConcConns : PsyncLoad(c)
    \/ \E c \in ConcConns : PsyncAppend(c)
    \/ \E c \in ConcConns : PsyncResync(c)
    \/ \E c \in ConcConns : PsyncRdb(c)
    \/ \E c \in ConcConns : SetRange(c)
    \/ \E c \in ConcConns : SetForward(c)
    \/ \E c \in ConcConns : SetLock(c)
    \/ \E c \in ConcConns : SetStore(c)
    \/ \E c \in ConcConns : SetReply(c)

SpecConc == InitConc /\ [][NextConc]_vars

\* handlers that only SET and GET, with the clock moving between their
\* statements: no PSYNC is sent, so the registry stays empty
NextLock ==
    \/ \E c \in ConcConns, in \in LockReads : ConcRead(c, in)
    \/ \E c \in ConcConns : SetRange(c)
    \/ \E c \in ConcConns : SetLock(c)
    \/ \E c \in ConcConns : SetStore(c)
    \/ \E c \in ConcConns : SetReply(c)
    \/ \E c \in ConcConns : GetRLock(c)
    \/ \E c \in ConcConns : GetCheck(c)
    \/ \E c \in ConcConns : GetDelData(c)
    \/ \E c \in ConcConns : GetDelExp(c)
    \/ \E c \in ConcConns : GetRead(c)
    \/ \E c \in ConcConns : GetRUnlock(c)
    \/ \E c \in ConcConns : GetReply(c)
    \/ Tick

SpecLock == InitConc /\ [][NextLock]_vars

-----------------------------------------------------------------------------
(* Properties of the dispatcher, stated on the record of the most recent   *)
(* loop iteration.  Only a loop iteration changes the store or the         *)
(* registry, so they still hold what that iteration left.                  *)

IsRead == last.op = "read"
PreStore == [Data |-> last.pre.Data, Expiries |-> last.pre.Expiries]
LowerFrame(frame) == [i \in 1..Len(frame) |-> ToLower(frame[i])]
KnownCommands == {echo, ping, set, get, info, replconf, psync}

\* C1: when the dispatcher processes a SET frame with at least key and value,
\* it writes to every connection of the registry, in registry order and
\* before anything else, exactly the 3-argument frame SET <key> <value> with
\* the key and value the store now holds, and no PX/TTL argument, whatever
\* TTL the client gave; the only other write is the reply to the client.
C1_ForwardsThreeArgSet ==
    (IsRead /\ last.commands # <<>> /\ last.commands[1] = set /\ Len(last.commands) >= 3) =>
        LET key == last.commands[2]
            value == last.commands[3]
            registered == last.pre.slaves
        IN  /\ Len(last.writes) = Len(registered) + 1
            /\ \A i \in 1..Len(registered) :
                   last.writes[i] = Write(registered[i], Encode(<<SET, key, value>>))
            /\ last.writes[Len(registered) + 1] = Write(last.conn, okResponse)
            /\ key \in DOMAIN Data /\ Data[key] = value
            /\ slaves = registered

\* a SET with a positive TTL was processed while two connections were registered
C1_Witness ==
    /\ IsRead /\ last.commands # <<>> /\ last.commands[1] = set
    /\ setTTL(last.commands) > 0
    /\ last.commands[2] \in DOMAIN Expiries
    /\ Len(last.pre.slaves) = 2 /\ last.pre.slaves[1] # last.pre.slaves[2]

Underflow(commands) ==
    /\ commands # <<>>
    /\ \/ commands[1] \in {echo, get} /\ Len(commands) < 2
       \/ commands[1] = set /\ Len(commands) < 3

\* C5: a decoded frame with fewer arguments than its command requires (ECHO
\* and GET need one, SET needs key and value) is a no-op: no reply, no change
\* of the store or the registry, no crash.
C5_UnderflowIsNoOp ==
    (IsRead /\ Underflow(last.commands)) =>
        /\ ~last.panic /\ ~crashed
        /\ last.writes = <<>>
        /\ store = PreStore
        /\ slaves = last.pre.slaves

\* the bytes hold a '*' header with a non-numeric count in first place, or a
\* '$' line with a non-numeric length anywhere
Malformed(buf) ==
    LET lines == Split(buf) IN
    \/ HasPrefix(lines[1], "*") /\ Atoi(Tail(lines[1])).err
    \/ \E i \in 1..Len(lines) : HasPrefix(lines[i], "$") /\ Atoi(Tail(lines[i])).err

\* C6: a read of malformed bytes does not crash the dispatcher, matches no
\* known command, sends no reply and leaves the store and the registry as
\* they were.
C6_MalformedIsDropped ==
    (IsRead /\ Malformed(last.buf)) =>
        /\ ~last.panic /\ ~crashed
        /\ last.commands = <<>> \/ last.commands[1] \notin KnownCommands
        /\ last.writes = <<>>
        /\ store = PreStore
        /\ slaves = last.pre.slaves

\* a read with a non-numeric '$' length after a valid header was handled
C6_Witness ==
    /\ IsRead /\ Malformed(last.buf)
    /\ last.commands = <<ErrTokenDollar>>
    /\ DOMAIN Data # {}

\* C7: the decoder never yields a partial command: what it returns is empty,
\* or the error token, or exactly the arguments of one complete frame of the
\* bytes read.
C7_NoPartialCommand ==
    IsRead =>
        \/ last.commands = <<>>
        \/ last.commands \in {<<ErrToken>>, <<ErrTokenDollar>>}
        \/ \E i \in 1..Len(last.frames) : last.commands = LowerFrame(last.frames[i])

\* the command frames the switch ran on in the iteration
Dispatched == IF last.commands = <<>> THEN <<>> ELSE <<last.commands>>

\* C8: every complete frame of a read is dispatched as its own command, once
\* and in arrival order.
C8_EachFrameDispatched ==
    (IsRead /\ last.frames # <<>>) =>
        Dispatched = [i \in 1..Len(last.frames) |-> LowerFrame(last.frames[i])]

\* C9: ECHO with one argument replies a bulk string whose payload is the
\* argument byte for byte as it was sent, letter case included.
C9_EchoVerbatim ==
    (IsRead /\ Len(last.frames) = 1 /\ Len(last.frames[1]) = 2
            /\ ToLower(last.frames[1][1]) = echo) =>
        last.writes = <<Write(last.conn, createResponseMsg(last.frames[1][2]))>>

-----------------------------------------------------------------------------
(* Properties of the store, stated on the most recent call and on the most *)
(* recent Set of each key.                                                 *)

\* C3: after Set(k, v, ttl) with ttl > 0 and no later Set of k, a Get(k) made
\* no later than the expiry instant returns (v, true); a Get(k) made after it,
\* the first or a later one, returns ("", false) and leaves k in neither map.
C3_GetHonoursExpiry ==
    (last.op = "get" /\ last.key \in DOMAIN lastSet /\ lastSet[last.key].ttl > 0) =>
        LET h == lastSet[last.key] IN
        IF last.at <= h.at + h.ttl
        THEN last.val = h.value /\ last.ok
        ELSE /\ last.val = <<>> /\ ~last.ok
             /\ last.key \notin DOMAIN Data
             /\ last.key \notin DOMAIN Expiries

\* a Get after the expiry instant of the key's latest Set has returned
C3_Witness ==
    /\ last.op = "get" /\ last.key \in DOMAIN lastSet
    /\ lastSet[last.key].ttl > 0
    /\ last.at > lastSet[last.key].at + lastSet[last.key].ttl
    /\ ~last.ok

\* C4: after Set(k, v, 0), whatever value and expiry k had, k has no expiry
\* and Get(k) returns (v, true) at any later time until the next Set of k.
C4_SetWithoutTTL ==
    \A k \in DOMAIN lastSet :
        lastSet[k].ttl = 0 =>
            /\ k \notin DOMAIN Expiries
            /\ \A t \in now..(MaxTime + 1) :
                   Get(store, k, t) = [val |-> lastSet[k].value, ok |-> TRUE, store |-> store]
            /\ (last.op = "get" /\ last.key = k) =>
                   (last.val = lastSet[k].value /\ last.ok)

\* a Get has returned for a key whose latest Set had no TTL and replaced an
\* entry whose expiry had elapsed
C4_Witness ==
    /\ last.op = "get" /\ last.key \in DOMAIN lastSet
    /\ lastSet[last.key].ttl = 0
    /\ lastSet[last.key].prior = "stale"
    /\ last.at > lastSet[last.key].at

-----------------------------------------------------------------------------
(* Properties of the replica's receive loop. *)

\* C2: when the receive loop applies a SET frame forwarded by the master, the
\* key has no expiry entry when the iteration ends and Store.Get finds it,
\* with the forwarded value, then and at every later time, whatever TTL the
\* master's client gave and whatever expiry the key had on the replica.
C2_ForwardedSetNeverExpires ==
    (last.op = "recv" /\ last.applied /\ Head(last.origins) = "fwd") =>
        LET key == last.commands[2]
            value == last.commands[3]
        IN  /\ key \notin DOMAIN Expiries
            /\ \A t \in now..(MaxTime + 1) :
                   Get(store, key, t) = [val |-> value, ok |-> TRUE, store |-> store]

\* the loop has applied the forward of a SET given with PX on the master, to
\* a key that had an expiry on the replica
C2_Witness ==
    /\ last.op = "recv" /\ last.applied /\ Head(last.origins) = "fwd"
    /\ last.commands = <<set, keyA, <<"y">>>>
    /\ keyA \in DOMAIN last.expiriesBefore
    /\ Data[keyA] = <<"y">>

\* C10: the replica offset starts at zero and always equals the sum of the
\* byte counts of all reads of the receive loop, whatever they decode to.
C10_OffsetCountsEveryRead ==
    offset = consumed

\* the bytes are a REPLCONF ACK frame: the fixed part of the frame written at
\* the replconf case, then one more bulk string
AckHead ==
    <<"*","3">> \o CRLF \o <<"$","8">> \o CRLF \o REPLCONF \o CRLF
    \o <<"$","3">> \o CRLF \o <<"A","C","K">> \o CRLF \o <<"$">>

IsAck(bytes) ==
    /\ Len(bytes) > Len(AckHead)
    /\ SubSeq(bytes, 1, Len(AckHead)) = AckHead
    /\ SubSeq(bytes, Len(bytes) - 1, Len(bytes)) = CRLF

\* C11: an iteration of the receive loop writes to the master nothing but one
\* REPLCONF ACK frame, and only when the read decodes to a REPLCONF command;
\* applying a SET or receiving anything else writes nothing.
C11_OnlyAckIsWritten ==
    last.op = "recv" =>
        IF last.commands # <<>> /\ last.commands[1] = replconf
        THEN /\ Len(last.writes) = 1
             /\ IsAck(last.writes[1])
             /\ ~last.applied
        ELSE last.writes = <<>>

\* the loop has applied a forwarded SET, writing nothing, once the offset had
\* counted earlier reads
C11_Witness ==
    /\ last.op = "recv" /\ last.applied /\ Head(last.origins) = "fwd"
    /\ last.writes = <<>>
    /\ last.offsetBefore > 0

\* C17: the offset written in the REPLCONF ACK is the value of the offset
\* before the read that carried the probe; the byte count of that read is
\* added once the ACK is written.
C17_AckCarriesOffsetBeforeProbe ==
    (last.op = "recv" /\ last.commands # <<>> /\ last.commands[1] = replconf) =>
        /\ last.writes = <<ackFrame(last.offsetBefore)>>
        /\ offset = last.offsetBefore + last.n

\* a probe was acknowledged when the offset already counted earlier reads
C17_Witness ==
    /\ last.op = "recv" /\ last.commands # <<>> /\ last.commands[1] = replconf
    /\ Head(last.origins) = "probe"
    /\ last.offsetBefore > 0
    /\ offset > last.offsetBefore

-----------------------------------------------------------------------------
(* Properties of the replica registry. *)

\* C20: the registry holds a connection at most once, however many PSYNC
\* frames it sent, so a SET writes exactly one forwarded frame to each
\* registered connection.
C20_RegistryIsSet ==
    /\ \A i, j \in 1..Len(slaves) : slaves[i] = slaves[j] => i = j
    /\ (IsRead /\ last.commands # <<>> /\ last.commands[1] = set
               /\ Len(last.commands) >= 3) =>
           \A c \in {last.pre.slaves[i] : i \in 1..Len(last.pre.slaves)} :
               Cardinality({i \in 1..Len(last.writes) :
                               last.writes[i] = Write(c, forwardFrame(last.commands))}) = 1

-----------------------------------------------------------------------------
(* Properties of the replica's handshake. *)

HandshakeOrder == <<pingMessage, replconfPort, replconfCapa, psyncMessage>>

\* C12: what the replica has written to the master is always a prefix of
\* PING, REPLCONF listening-port, REPLCONF capa psync2, PSYNC ? -1, and the
\* receive loop has read nothing and applied nothing before all four are
\* written.
C12_HandshakeInOrder ==
    /\ Len(sent) <= Len(HandshakeOrder)
    /\ sent = SubSeq(HandshakeOrder, 1, Len(sent))
    /\ (consumed > 0 \/ last.op = "recv" \/ rpc \in {"loop", "done"}) =>
           sent = HandshakeOrder

\* the loop has read the master's reply after the four frames were written
C12_Witness ==
    /\ sent = HandshakeOrder
    /\ last.op = "recv"
    /\ consumed > 0

\* C13: a failed dial or a failed write of a handshake step ends the replica
\* process, and the receive loop is entered only when all four frames were
\* written.
C13_HandshakeFailureIsFatal ==
    /\ last.op \in {"dialfail", "sendfail"} => rpc \in {"exit", "panic"}
    /\ rpc = "loop" => sent = HandshakeOrder

-----------------------------------------------------------------------------
(* Properties of the interleaved handlers. *)

InRegistry(c) == \E i \in 1..Len(slaves) : slaves[i] = c

\* C14: every connection whose PSYNC branch has run its append is in the
\* registry from then on, whatever other handlers do meanwhile.
C14_RegistrationsAreKept ==
    \A c \in hist.psyncs : InRegistry(c)

ForwardFrames ==
    {forwardFrame(in.commands) : in \in {r \in ConcReads : r.commands[1] = set}}

IsForward(e) == e.bytes \in ForwardFrames

\* the place of frame id among the Store.Set calls made so far, 0 if none
SetPos(id) ==
    IF \E k \in 1..Len(hist.sets) : hist.sets[k].id = id
    THEN CHOOSE k \in 1..Len(hist.sets) : hist.sets[k].id = id
    ELSE 0

\* C15: when a handler is about to write the OK of a SET, and once it has
\* written it, its Store.Set has been made and the forwarded frame has been
\* written to every connection that was in the registry when the SET was
\* processed; the store holds the value unless a later Set replaced it.
C15_ForwardAndStoreBeforeOK ==
    /\ \A c \in DOMAIN pc :
           pc[c].at = "reply" =>
               LET h == pc[c] IN
               /\ SetPos(h.id) > 0
               /\ \A i \in 1..Len(h.local) :
                      \E p \in 1..Len(wire[h.local[i]]) :
                          wire[h.local[i]][p] = Sent(forwardFrame(h.commands), h.id)
               /\ SetPos(h.id) = Len(hist.sets) =>
                      (h.commands[2] \in DOMAIN Data /\ Data[h.commands[2]] = h.commands[3])
    /\ \A c \in DOMAIN wire : \A p \in 1..Len(wire[c]) :
           wire[c][p].bytes = okResponse => SetPos(wire[c][p].id) > 0

\* a handler is about to write the OK of a SET given with PX that it has
\* forwarded to a registered connection
C15_Witness ==
    \E c \in DOMAIN pc :
        /\ pc[c].at = "reply"
        /\ Len(pc[c].commands) = 5
        /\ Len(pc[c].local) >= 1
        /\ \E p \in 1..Len(wire[pc[c].local[1]]) : wire[pc[c].local[1]][p].id = pc[c].id

Deleting(c) == pc[c].at \in {"delData", "delExp"}

\* C16: a goroutine that is about to change Data or Expiries holds the
\* write lock, and while one goroutine deletes from the maps no other holds
\* the read lock or deletes.
C16_MutationsUnderWriteLock ==
    \A c \in DOMAIN pc :
        /\ (Deleting(c) \/ pc[c].at = "store") =>
               (lock.writer = c /\ lock.readers = {})
        /\ Deleting(c) =>
               \A d \in DOMAIN pc \ {c} : d \notin lock.readers /\ ~Deleting(d)

\* C18: whatever a connection receives as a forwarded SET frame comes after
\* the +FULLRESYNC preamble and, after that, the whole snapshot.
C18_SnapshotBeforeForwards ==
    \A c \in DOMAIN wire : \A p \in 1..Len(wire[c]) :
        IsForward(wire[c][p]) =>
            \E q1, q2 \in 1..(p - 1) :
                /\ q1 < q2
                /\ wire[c][q1].bytes = fullResync
                /\ wire[c][q2].bytes = rdbTransfer

\* forwarded frames that carry different values of a key reach a connection
\* in the order of their Store.Set calls
ForwardOrderIsStoreOrder ==
    \A r \in DOMAIN wire : \A p, q \in 1..Len(wire[r]) :
        (/\ p < q
         /\ IsForward(wire[r][p]) /\ IsForward(wire[r][q])
         /\ wire[r][p].bytes # wire[r][q].bytes
         /\ SetPos(wire[r][p].id) > 0 /\ SetPos(wire[r][q].id) > 0) =>
            SetPos(wire[r][p].id) < SetPos(wire[r][q].id)

\* what has been forwarded has been stored
ForwardedIsStored ==
    \A r \in DOMAIN wire : \A p \in 1..Len(wire[r]) :
        IsForward(wire[r][p]) => SetPos(wire[r][p].id) > 0

\* C19: the forwarded frames of SETs of one key are written to a registered
\* connection in the order in which the store applies those SETs, and a
\* value that has been forwarded is in the master's store.
C19_ReplicaFollowsStoreOrder ==
    ForwardOrderIsStoreOrder /\ ForwardedIsStored

====
